---- MODULE Spec2Model ----
(***************************************************************************)
(* Model of the data acquisition server of src/main.cpp: a TCP server      *)
(* whose sessions parse LOG and GET lines, append fixed-size records to    *)
(* one binary file per sensor id and answer tail reads.                    *)
(*                                                                         *)
(* Text is modelled as a sequence of tokens: the delimiter "|", the        *)
(* carriage return "\r", and atoms (maximal runs of other characters).     *)
(* A message is what std::getline hands to process_message: the line up to *)
(* the first '\n', so a CRLF-terminated line still carries its "\r".       *)
(***************************************************************************)
EXTENDS Integers, Sequences, FiniteSets, TLC

\* ------------------------------------------------------------------ bounds

\* Number of connected sessions.
NumSessions == 2

\* Cap on the number of appends (LOG lines that reach the store) in a run.
MaxAppends == 3

\* ------------------------------------------------------- program constants

\* sizeof(LogRecord) under #pragma pack(1): 32 + 8 + 8.
RecordSize == 48

Sessions == 1..NumSessions

\* Value of the mutex when no session holds it.
Free == 0

\* The two line terminators the server writes: a real CR LF, and the four
\* characters backslash, r, backslash, n of the literal "\\r\\n".
CRLF == "\r\n"
EscapedCRLF == "\\r\\n"

\* --------------------------------------------------------------- the input

T1 == "2024-01-15T10:00:00"
T2 == "2024-01-15T10:00:01"

\* The messages clients send, as process_message receives them.
Lines ==
  { <<"LOG", "|", "s1", "|", T1, "|", "23.5", "\r">>,
    <<"LOG", "|", "s1", "|", T2, "|", "7.25", "\r">>,
    <<"LOG", "|", "s2", "|", "yesterday", "|", "23.5", "\r">>,
    <<"LOG", "|", "s1", "|", T1, "|", "abc", "\r">>,
    <<"LOG", "|", "s1", "|", T1, "|", "1e999", "\r">>,
    <<"LOG", "|", "s1", "|", T1, "|", "\r">>,
    <<"LOG", "|", "onlytwo", "\r">>,
    <<"LOG", "|", "s1", "|", T1, "|", "23.5", "|", "x", "\r">>,
    <<"LOG", "|", "s1", "|", T1, "|">>,
    <<"GET", "|", "s1", "|", "1", "\r">>,
    <<"GET", "|", "s1", "|", "2", "\r">>,
    <<"GET", "|", "s1", "|", "100", "\r">>,
    <<"GET", "|", "s1", "|", "0", "\r">>,
    <<"GET", "|", "s1", "|", "-2", "\r">>,
    <<"GET", "|", "s1", "|", "abc", "\r">>,
    <<"GET", "|", "s1", "|", "1x", "\r">>,
    <<"GET", "|", "s1", "|", "99999999999", "\r">>,
    <<"GET", "|", "s2", "|", "1", "\r">>,
    <<"GET", "|", "unknown", "|", "5", "\r">>,
    <<"GET", "|", "unknown", "|", "0", "\r">>,
    <<"GET", "|", "unknown", "|", "-2", "\r">>,
    <<"GET", "|", "s1", "\r">>,
    <<"GET", "|", "s1", "|", "1", "|", "x", "\r">>,
    <<"PUT", "|", "s1", "|", "1", "\r">>,
    <<"LOG", "\r">>,
    <<"\r">> }

\* ---------------------------------------------------------- pure functions

\* A std::min that does not clamp: the count as requested.
MinIntUnclamped(a, b) == a

MinInt(a, b) == IF b < a THEN b ELSE a

\* message.rfind(prefix + "|", 0) == 0
HasPrefix(message, prefix) ==
  Len(message) >= 2 /\ message[1] = prefix /\ message[2] = "|"

\* The text of `message` before the first '|' (all of it when there is none).
RECURSIVE FirstField(_)
FirstField(message) ==
  IF message = <<>> \/ Head(message) = "|" THEN <<>>
  ELSE <<Head(message)>> \o FirstField(Tail(message))

\* split_message: std::getline(stream, part, '|') until it fails.  getline
\* fails when it extracts nothing and meets the end of the text, so an empty
\* text gives no part and a text ending in '|' gives no empty last part.
RECURSIVE split_message(_)
split_message(message) ==
  IF message = <<>> THEN <<>>
  ELSE LET part == FirstField(message)
           rest == SubSeq(message, Len(part) + 1, Len(message))
       IN  IF rest = <<>> THEN <<part>>
           ELSE <<part>> \o split_message(Tail(rest))

\* A field-count test that lets longer lines through.
LogShapeLoose(parts) == Len(parts) >= 4

\* Line 56 and line 102: the field counts of a well-shaped LOG and GET.
LogShapeOk(parts) == Len(parts) = 4
GetShapeOk(parts) == Len(parts) = 3

\* std::get_time with "%Y-%m-%dT%H:%M:%S" followed by std::mktime, for the
\* texts of the input (the time zone is UTC).
TimeOf == (T1 :> 1705312800) @@ (T2 :> 1705312801)

\* string_to_time_t: the time of a text that parses completely, else -1.
string_to_time_t(time_string) ==
  IF Len(time_string) = 1 /\ time_string[1] \in DOMAIN TimeOf
  THEN TimeOf[time_string[1]]
  ELSE -1

\* time_t_to_string: std::localtime and std::put_time.
time_t_to_string(time) ==
  CASE time = 1705312800 -> T1
    [] time = 1705312801 -> T2
    [] time = -1 -> "1969-12-31T23:59:59"
    [] OTHER -> "?"

\* A conversion in the manner of std::atof: no exception, 0 for a text that
\* is no number.
atof(str) ==
  LET digits == IF str # <<>> /\ str[1] # "\r" THEN str[1] ELSE ""
  IN  CASE digits = "23.5" -> [ok |-> TRUE, value |-> 2350, what |-> ""]
        [] digits = "7.25" -> [ok |-> TRUE, value |-> 725, what |-> ""]
        [] OTHER -> [ok |-> TRUE, value |-> 0, what |-> ""]

\* A double is modelled by its value in hundredths.
\* std::stod: leading whitespace is skipped, the longest numeric prefix is
\* converted and what follows it is ignored.
stod(str) ==
  LET digits == IF str # <<>> /\ str[1] # "\r" THEN str[1] ELSE ""
  IN  CASE digits = "23.5" -> [ok |-> TRUE, value |-> 2350, what |-> ""]
        [] digits = "7.25" -> [ok |-> TRUE, value |-> 725, what |-> ""]
        [] digits = "1e999" -> [ok |-> FALSE, value |-> 0, what |-> "out_of_range"]
        [] OTHER -> [ok |-> FALSE, value |-> 0, what |-> "invalid_argument"]

\* operator<<(double) with the default precision of 6 significant digits.
FormatDouble(value) ==
  CASE value = 2350 -> "23.5"
    [] value = 725 -> "7.25"
    [] OTHER -> "?"

\* std::stoi: as stod, for an int.
stoi(str) ==
  LET digits == IF str # <<>> /\ str[1] # "\r" THEN str[1] ELSE ""
  IN  CASE digits = "1" -> [ok |-> TRUE, value |-> 1, what |-> ""]
        [] digits = "1x" -> [ok |-> TRUE, value |-> 1, what |-> ""]
        [] digits = "2" -> [ok |-> TRUE, value |-> 2, what |-> ""]
        [] digits = "5" -> [ok |-> TRUE, value |-> 5, what |-> ""]
        [] digits = "100" -> [ok |-> TRUE, value |-> 100, what |-> ""]
        [] digits = "0" -> [ok |-> TRUE, value |-> 0, what |-> ""]
        [] digits = "-2" -> [ok |-> TRUE, value |-> -2, what |-> ""]
        [] digits = "99999999999" ->
             [ok |-> FALSE, value |-> 0, what |-> "out_of_range"]
        [] OTHER -> [ok |-> FALSE, value |-> 0, what |-> "invalid_argument"]

\* A handler that catches std::invalid_argument alone.
CaughtInvalidArgumentOnly(what) == what = "invalid_argument"

\* Lines 87-96 and 110-123: what the catch clauses around std::stod and
\* std::stoi catch.  An exception they do not catch leaves the handler and
\* io_context::run(), and ends the process.
Caught(what) == what \in {"invalid_argument", "out_of_range"}

\* ------------------------------------------------------------- the record

\* sizeof(LogRecord::sensor_id)
IdFieldSize == 32

\* A zero byte.
NUL == "NUL"

\* The bytes of an atom.
Bytes(atom) ==
  CASE atom = "s1" -> <<"s", "1">>
    [] atom = "s2" -> <<"s", "2">>
    [] OTHER -> <<>>

\* c_str() of a field: the bytes of its atoms.
RECURSIVE c_str(_)
c_str(str) ==
  IF str = <<>> THEN <<>> ELSE Bytes(Head(str)) \o c_str(Tail(str))

\* std::strncpy(dest, src, n): the first n bytes of src, zero-padded to n.
strncpy(src, n) ==
  [i \in 1..n |-> IF i <= Len(src) THEN src[i] ELSE NUL]

\* Lines 63-64: the identifier field of a record.  The last byte is set to
\* the multi-character constant '\\0', whose conversion to char keeps its
\* low byte, the digit '0'.
IdField(sensor_id) ==
  strncpy(c_str(sensor_id), IdFieldSize - 1) \o <<"0">>

\* Lines 62-68: the record of a LOG.
MakeRecord(sensor_id, timestamp_str, value) ==
  [sensor_id |-> IdField(sensor_id),
   timestamp |-> string_to_time_t(timestamp_str),
   value |-> value]

\* The record of a session that is not building one.
NoRecord == [sensor_id |-> <<>>, timestamp |-> 0, value |-> 0]

\* --------------------------------------------------------------- the state

VARIABLES
  pc,            \* per session: where its completion handler stands
                 \* ("terminated": an exception has left the handler)
  message,       \* per session: the line handed to process_message
  record,        \* per session: the LogRecord of a LOG (line 62)
  num_records,   \* per session: the count of a GET (line 105)
  sensor_exists, \* per session: the flag of a GET (line 125)
  position,      \* per session: the read position of log_file, in bytes
  response,      \* per session: the ostringstream of a GET (line 149)
  sent,          \* per session: what the handler wrote to its socket
  logs_mutex_,   \* Server::logs_mutex_: Free or the session holding it
  logs_,         \* Server::logs_: sensor id -> std::ofstream
  files,         \* the working directory: sensor id -> content of <id>.log
  files0,        \* history: the working directory at startup
  appends,       \* history: per sensor id, the records of the LOGs that
                 \* acquired the mutex, in the order they acquired it
  appenders      \* history: the sessions of those LOGs

vars == <<pc, message, record, num_records, sensor_exists, position, response,
          sent, logs_mutex_, logs_, files, files0, appends, appenders>>

locals == <<record, num_records, sensor_exists, position, response>>

\* A file is a sequence of blocks, each the bytes of one write.
Block(rec, size) == [rec |-> rec, size |-> size]

RECURSIVE FileSize(_)
FileSize(data) ==
  IF data = <<>> THEN 0 ELSE Head(data).size + FileSize(Tail(data))

\* What a read of RecordSize bytes at byte offset `pos` of `data` yields: the
\* record written there, or no record when the offset is not the start of a
\* whole record.
RECURSIVE ReadAt(_, _)
ReadAt(data, pos) ==
  IF data = <<>> \/ pos < 0 THEN NoRecord
  ELSE IF pos = 0
       THEN (IF Head(data).size = RecordSize THEN Head(data).rec ELSE NoRecord)
       ELSE ReadAt(Tail(data), pos - Head(data).size)

\* A record left in the working directory by an earlier run of the server.
OldRecord == MakeRecord(<<"s1">>, <<T1>>, 725)

\* The std::ofstream of a registry entry.
Stream(is_open, buffer) == [is_open |-> is_open, buffer |-> buffer]

\* The number of appends so far.
RECURSIVE TotalAppends(_)
TotalAppends(ids) ==
  IF ids = {} THEN 0
  ELSE LET id == CHOOSE x \in ids : TRUE
       IN  Len(appends[id]) + TotalAppends(ids \ {id})

\* Lines 251-253 and 264-266: an empty registry, a free mutex, every session
\* waiting for a line; the working directory is empty or holds the log of an
\* earlier run.
Init ==
  /\ pc = [s \in Sessions |-> "await"]
  /\ message = [s \in Sessions |-> <<>>]
  /\ record = [s \in Sessions |-> NoRecord]
  /\ num_records = [s \in Sessions |-> 0]
  /\ sensor_exists = [s \in Sessions |-> FALSE]
  /\ position = [s \in Sessions |-> 0]
  /\ response = [s \in Sessions |-> <<>>]
  /\ sent = [s \in Sessions |-> <<>>]
  /\ logs_mutex_ = Free
  /\ logs_ = <<>>
  /\ files \in {<<>>, (<<"s1">> :> <<Block(OldRecord, RecordSize)>>)}
  /\ files0 = files
  /\ appends = <<>>
  /\ appenders = {}

\* ------------------------------------------------------------ the handlers

\* Line 266: io_context::run() is called by one thread, so a completion
\* handler starts only when no other handler is running.
IoThreadIdle == \A t \in Sessions : pc[t] = "await"

\* Lines 40-45: a line has arrived at a waiting session and its handler
\* starts.
Arrives(s) ==
  /\ pc[s] = "await"
  /\ IoThreadIdle

\* Lines 53-57, 99-103: a line that is neither a LOG of 4 fields nor a GET
\* of 3 fields is ignored.
IgnoreLine(s) ==
  /\ Arrives(s)
  /\ \E m \in Lines :
       /\ ~(HasPrefix(m, "LOG") /\ LogShapeOk(split_message(m)))
       /\ ~(~HasPrefix(m, "LOG") /\ HasPrefix(m, "GET")
             /\ GetShapeOk(split_message(m)))
       /\ message' = [message EXCEPT ![s] = m]
  /\ pc' = [pc EXCEPT ![s] = "done"]
  /\ UNCHANGED <<locals, sent, logs_mutex_, logs_, files, files0, appends, appenders>>

\* Lines 53-68, 87-96: a LOG of 4 fields; the record is built, and the LOG
\* goes on to the store unless std::stod throws.
ParseLog(s) ==
  /\ Arrives(s)
  /\ \E m \in Lines :
       /\ HasPrefix(m, "LOG")
       /\ LET parts == split_message(m)
              value == stod(parts[4])
          IN  /\ LogShapeOk(parts)
              /\ value.ok => TotalAppends(DOMAIN appends) < MaxAppends
              /\ message' = [message EXCEPT ![s] = m]
              /\ record' = [record EXCEPT
                   ![s] = MakeRecord(parts[2], parts[3], value.value)]
              /\ pc' = [pc EXCEPT
                   ![s] = IF value.ok THEN "log_lock"
                          ELSE IF Caught(value.what) THEN "done"
                          ELSE "terminated"]
  /\ UNCHANGED <<num_records, sensor_exists, position, response, sent,
                 logs_mutex_, logs_, files, files0, appends, appenders>>

\* The sensor id of the line a session is processing.
SensorId(s) == split_message(message[s])[2]

\* Line 70: the lock_guard of a LOG.
LogLock(s) ==
  /\ pc[s] = "log_lock"
  /\ logs_mutex_ = Free
  /\ logs_mutex_' = s
  /\ pc' = [pc EXCEPT ![s] = "log_find"]
  /\ appends' = IF SensorId(s) \in DOMAIN appends
                THEN [appends EXCEPT ![SensorId(s)] = Append(@, record[s])]
                ELSE appends @@ (SensorId(s) :> <<record[s]>>)
  /\ appenders' = appenders \cup {s}
  /\ UNCHANGED <<message, locals, sent, logs_, files, files0>>

\* A registry step that opens the stream without std::ios::app, which
\* empties the file.
LogFindTruncating(s) ==
  /\ pc[s] = "log_find"
  /\ pc' = [pc EXCEPT ![s] = "log_write"]
  /\ IF split_message(message[s])[2] \in DOMAIN logs_
     THEN UNCHANGED <<logs_, files>>
     ELSE \E opened \in BOOLEAN :
            /\ logs_' = logs_ @@ (split_message(message[s])[2] :>
                                   [is_open |-> opened, buffer |-> <<>>])
            /\ files' = IF opened
                        THEN [id \in DOMAIN files
                                     \cup {split_message(message[s])[2]} |->
                                IF id = split_message(message[s])[2]
                                THEN <<>> ELSE files[id]]
                        ELSE files
  /\ UNCHANGED <<message, locals, sent, logs_mutex_, files0, appends,
                 appenders>>

\* A registry step that opens the stream again when an earlier open failed.
LogFindRetrying(s) ==
  /\ pc[s] = "log_find"
  /\ pc' = [pc EXCEPT ![s] = "log_write"]
  /\ IF /\ split_message(message[s])[2] \in DOMAIN logs_
        /\ logs_[split_message(message[s])[2]].is_open
     THEN UNCHANGED <<logs_, files>>
     ELSE \E opened \in BOOLEAN :
            /\ logs_' = [id \in DOMAIN logs_
                                 \cup {split_message(message[s])[2]} |->
                           IF id = split_message(message[s])[2]
                           THEN [is_open |-> opened, buffer |-> <<>>]
                           ELSE logs_[id]]
            /\ files' = IF /\ opened
                           /\ split_message(message[s])[2] \notin DOMAIN files
                        THEN files @@ (split_message(message[s])[2] :> <<>>)
                        ELSE files
  /\ UNCHANGED <<message, locals, sent, logs_mutex_, files0, appends,
                 appenders>>

\* Lines 71-74: the registry lookup of a LOG; an unknown sensor id gets a
\* registry entry whose stream is opened for appending.  Opening creates
\* the file when there is none; it may fail, and the entry stays.
LogFind(s) ==
  /\ pc[s] = "log_find"
  /\ pc' = [pc EXCEPT ![s] = "log_write"]
  /\ IF SensorId(s) \in DOMAIN logs_
     THEN UNCHANGED <<logs_, files>>
     ELSE \E opened \in BOOLEAN :
            /\ logs_' = logs_ @@ (SensorId(s) :> Stream(opened, <<>>))
            /\ files' = IF opened /\ SensorId(s) \notin DOMAIN files
                        THEN files @@ (SensorId(s) :> <<>>)
                        ELSE files
  /\ UNCHANGED <<message, locals, sent, logs_mutex_, files0, appends, appenders>>

\* sizeof(record.sensor_id): the size of one field instead of the record.
WriteSizeOfField == IdFieldSize

\* The number of bytes line 78 writes: sizeof(record).
WriteSize == RecordSize

\* A write step that leaves the handler, the mutex still taken, when the
\* stream is not open.
LogWriteLeaking(s) ==
  /\ pc[s] = "log_write"
  /\ IF logs_[split_message(message[s])[2]].is_open
     THEN /\ logs_' = [logs_ EXCEPT ![split_message(message[s])[2]].buffer =
                         Append(@, [rec |-> record[s], size |-> RecordSize])]
          /\ pc' = [pc EXCEPT ![s] = "log_flush"]
     ELSE /\ pc' = [pc EXCEPT ![s] = "done"]
          /\ UNCHANGED logs_
  /\ UNCHANGED <<message, locals, sent, logs_mutex_, files, files0, appends,
                 appenders>>

\* Lines 76-78, 81-85: the record goes to the buffer of an open stream.
LogWrite(s) ==
  /\ pc[s] = "log_write"
  /\ IF logs_[SensorId(s)].is_open
     THEN /\ logs_' = [logs_ EXCEPT ![SensorId(s)].buffer =
                         Append(@, Block(record[s], WriteSize))]
          /\ pc' = [pc EXCEPT ![s] = "log_flush"]
     ELSE /\ pc' = [pc EXCEPT ![s] = "log_unlock"]
          /\ UNCHANGED logs_
  /\ UNCHANGED <<message, locals, sent, logs_mutex_, files, files0, appends, appenders>>

\* A LOG that leaves the record in the buffer of the stream.
LogFlushNothing(s) ==
  /\ pc[s] = "log_flush"
  /\ pc' = [pc EXCEPT ![s] = "log_unlock"]
  /\ UNCHANGED <<message, locals, sent, logs_mutex_, logs_, files, files0,
                 appends, appenders>>

\* What a flush of `buffer` makes of a file opened with std::ios::app.
Flushed(data, buffer) == data \o buffer

\* Line 79: flush().
LogFlush(s) ==
  /\ pc[s] = "log_flush"
  /\ files' = [files EXCEPT ![SensorId(s)] =
                 Flushed(@, logs_[SensorId(s)].buffer)]
  /\ logs_' = [logs_ EXCEPT ![SensorId(s)].buffer = <<>>]
  /\ pc' = [pc EXCEPT ![s] = "log_unlock"]
  /\ UNCHANGED <<message, locals, sent, logs_mutex_, files0, appends, appenders>>

\* Line 86: the end of the scope of the lock_guard.
LogUnlock(s) ==
  /\ pc[s] = "log_unlock"
  /\ logs_mutex_' = Free
  /\ pc' = [pc EXCEPT ![s] = "done"]
  /\ UNCHANGED <<message, locals, sent, logs_, files, files0, appends, appenders>>

\* Lines 113, 120, 137, 164: the error responses, each a code and what
\* follows it in the string literal.
InvalidNumRecords == <<"ERROR|INVALID_NUM_RECORDS", EscapedCRLF>>
CannotReadLogFile == <<"ERROR|CANNOT_READ_LOG_FILE", EscapedCRLF>>
InvalidSensorId == <<"ERROR|INVALID_SENSOR_ID", CRLF>>

\* Lines 99-123: a GET of 3 fields; a count std::stoi rejects is answered
\* with an error, any other goes on to the registry.
ParseGet(s) ==
  /\ Arrives(s)
  /\ \E m \in Lines :
       /\ ~HasPrefix(m, "LOG")
       /\ HasPrefix(m, "GET")
       /\ LET parts == split_message(m)
              count == stoi(parts[3])
          IN  /\ GetShapeOk(parts)
              /\ message' = [message EXCEPT ![s] = m]
              /\ num_records' = [num_records EXCEPT ![s] = count.value]
              /\ sent' = [sent EXCEPT
                   ![s] = IF ~count.ok /\ Caught(count.what)
                          THEN InvalidNumRecords ELSE <<>>]
              /\ pc' = [pc EXCEPT
                   ![s] = IF count.ok THEN "get_lock"
                          ELSE IF Caught(count.what) THEN "done"
                          ELSE "terminated"]
  /\ UNCHANGED <<record, sensor_exists, position, response,
                 logs_mutex_, logs_, files, files0, appends, appenders>>

\* Line 127: the lock_guard of a GET.
GetLock(s) ==
  /\ pc[s] = "get_lock"
  /\ logs_mutex_ = Free
  /\ logs_mutex_' = s
  /\ pc' = [pc EXCEPT ![s] = "get_find"]
  /\ UNCHANGED <<message, locals, sent, logs_, files, files0, appends, appenders>>

\* A lookup that asks the working directory instead of the registry.
GetFindByFile(s) ==
  /\ pc[s] = "get_find"
  /\ sensor_exists' = [sensor_exists EXCEPT
       ![s] = split_message(message[s])[2] \in DOMAIN files]
  /\ pc' = [pc EXCEPT ![s] = "get_unlock"]
  /\ UNCHANGED <<message, record, num_records, position, response, sent,
                 logs_mutex_, logs_, files, files0, appends, appenders>>

\* A lookup through logs_[sensor_id], which inserts a closed stream for a
\* sensor id the registry does not hold.
GetFindInserting(s) ==
  /\ pc[s] = "get_find"
  /\ logs_' = IF split_message(message[s])[2] \in DOMAIN logs_ THEN logs_
              ELSE logs_ @@ (split_message(message[s])[2] :>
                               [is_open |-> FALSE, buffer |-> <<>>])
  /\ sensor_exists' = [sensor_exists EXCEPT ![s] = TRUE]
  /\ pc' = [pc EXCEPT ![s] = "get_unlock"]
  /\ UNCHANGED <<message, record, num_records, position, response, sent,
                 logs_mutex_, files, files0, appends, appenders>>

\* Line 128: logs_.count(sensor_id) > 0.
GetFind(s) ==
  /\ pc[s] = "get_find"
  /\ sensor_exists' = [sensor_exists EXCEPT
                         ![s] = SensorId(s) \in DOMAIN logs_]
  /\ pc' = [pc EXCEPT ![s] = "get_unlock"]
  /\ UNCHANGED <<message, record, num_records, position, response, sent,
                 logs_mutex_, logs_, files, files0, appends, appenders>>

\* Line 129: the end of the scope of the lock_guard.
GetUnlock(s) ==
  /\ pc[s] = "get_unlock"
  /\ logs_mutex_' = Free
  /\ pc' = [pc EXCEPT ![s] = "get_open"]
  /\ UNCHANGED <<message, locals, sent, logs_, files, files0, appends, appenders>>

\* Lines 131-140, 162-166: an unknown sensor is answered with an error; the
\* file of a known one is opened for reading, which fails when there is no
\* such file.
GetOpen(s) ==
  /\ pc[s] = "get_open"
  /\ IF ~sensor_exists[s]
     THEN /\ sent' = [sent EXCEPT ![s] = InvalidSensorId]
          /\ pc' = [pc EXCEPT ![s] = "done"]
     ELSE IF SensorId(s) \notin DOMAIN files
          THEN /\ sent' = [sent EXCEPT ![s] = CannotReadLogFile]
               /\ pc' = [pc EXCEPT ![s] = "done"]
          ELSE /\ pc' = [pc EXCEPT ![s] = "get_seek"]
               /\ UNCHANGED sent
  /\ UNCHANGED <<message, locals, logs_mutex_, logs_, files, files0, appends, appenders>>

\* Line 144: file_size / sizeof(LogRecord).
TotalRecords(file_size) == file_size \div RecordSize

\* Line 147: seekg(-num_records * sizeof(LogRecord), std::ios::end).
SeekFromEnd(file_size, count) == file_size - count * RecordSize

\* Lines 142-150: the size of the file, the clamped count, the seek to the
\* first record of the window and the count at the head of the response.
GetSeek(s) ==
  /\ pc[s] = "get_seek"
  /\ LET file_size == FileSize(files[SensorId(s)])
         count == MinInt(num_records[s], TotalRecords(file_size))
     IN  /\ num_records' = [num_records EXCEPT ![s] = count]
         /\ position' = [position EXCEPT
                           ![s] = SeekFromEnd(file_size, count)]
         /\ response' = [response EXCEPT ![s] = <<ToString(count)>>]
  /\ pc' = [pc EXCEPT ![s] = "get_read"]
  /\ UNCHANGED <<message, record, sensor_exists, sent,
                 logs_mutex_, logs_, files, files0, appends, appenders>>

\* Line 156: the segment of one record.
Segment(rec) ==
  <<";", time_t_to_string(rec.timestamp), "|", FormatDouble(rec.value)>>

\* Lines 152-157: `count` records are read from `pos` on, each rendered
\* after the one before it.
RECURSIVE ReadLoop(_, _, _)
ReadLoop(data, pos, count) ==
  IF count <= 0 THEN <<>>
  ELSE Segment(ReadAt(data, pos))
         \o ReadLoop(data, pos + RecordSize, count - 1)

GetRead(s) ==
  /\ pc[s] = "get_read"
  /\ response' = [response EXCEPT
                    ![s] = @ \o ReadLoop(files[SensorId(s)], position[s],
                                         num_records[s])]
  /\ position' = [position EXCEPT
                    ![s] = IF num_records[s] > 0
                           THEN @ + num_records[s] * RecordSize ELSE @]
  /\ pc' = [pc EXCEPT ![s] = "get_send"]
  /\ UNCHANGED <<message, record, num_records, sensor_exists, sent,
                 logs_mutex_, logs_, files, files0, appends, appenders>>

\* Lines 159-160: the terminator, and the response goes to the socket.
GetSend(s) ==
  /\ pc[s] = "get_send"
  /\ sent' = [sent EXCEPT ![s] = response[s] \o <<CRLF>>]
  /\ pc' = [pc EXCEPT ![s] = "done"]
  /\ UNCHANGED <<message, locals, logs_mutex_, logs_, files, files0, appends, appenders>>

\* Lines 46, 34-37: process_message has returned; the session waits for its
\* next line, the locals of the call are gone.
read_message(s) ==
  /\ pc[s] = "done"
  /\ pc' = [pc EXCEPT ![s] = "await"]
  /\ message' = [message EXCEPT ![s] = <<>>]
  /\ record' = [record EXCEPT ![s] = NoRecord]
  /\ num_records' = [num_records EXCEPT ![s] = 0]
  /\ sensor_exists' = [sensor_exists EXCEPT ![s] = FALSE]
  /\ position' = [position EXCEPT ![s] = 0]
  /\ response' = [response EXCEPT ![s] = <<>>]
  /\ sent' = [sent EXCEPT ![s] = <<>>]
  /\ UNCHANGED <<logs_mutex_, logs_, files, files0, appends, appenders>>

Next ==
  \E s \in Sessions :
    \/ IgnoreLine(s)
    \/ ParseLog(s)
    \/ ParseGet(s)
    \/ LogLock(s)
    \/ LogFind(s)
    \/ LogWrite(s)
    \/ LogFlush(s)
    \/ LogUnlock(s)
    \/ GetLock(s)
    \/ GetFind(s)
    \/ GetUnlock(s)
    \/ GetOpen(s)
    \/ GetSeek(s)
    \/ GetRead(s)
    \/ GetSend(s)
    \/ read_message(s)

Spec == Init /\ [][Next]_vars

\* The steps of a handler that has started.
Handler(s) ==
  \/ LogLock(s) \/ LogFind(s) \/ LogWrite(s) \/ LogFlush(s) \/ LogUnlock(s)
  \/ GetLock(s) \/ GetFind(s) \/ GetUnlock(s) \/ GetOpen(s) \/ GetSeek(s)
  \/ GetRead(s) \/ GetSend(s) \/ read_message(s)

\* ----------------------------------------------------------------- claims

\* The parts of the line a session is processing, and its shape.
Parts(s) == split_message(message[s])
IsLog(s) ==
  pc[s] # "await" /\ HasPrefix(message[s], "LOG") /\ Len(Parts(s)) = 4
IsGet(s) ==
  pc[s] # "await" /\ HasPrefix(message[s], "GET") /\ Len(Parts(s)) = 3

\* The count field of a GET, as std::stoi reads it.
Count(s) == stoi(Parts(s)[3])

\* The records of a file, in write order.
RecordsOf(data) == [i \in 1..Len(data) |-> data[i].rec]

\* The segments of a sequence of records, in its order.
RECURSIVE Rendered(_)
Rendered(recs) ==
  IF recs = <<>> THEN <<>> ELSE Segment(Head(recs)) \o Rendered(Tail(recs))

\* A session is between the lock and the unlock of a LOG.
Appending(s) == pc[s] \in {"log_find", "log_write", "log_flush", "log_unlock"}

\* C1: a GET|S|k with k >= 1, for a registered sensor S whose log holds the
\* records r_1..r_T, is answered with n = min(k, T) followed by the records
\* r_(T-n+1)..r_T in write order, and never with an error.
C1_TailRead ==
  \A s \in Sessions :
    (/\ pc[s] = "done"
     /\ IsGet(s)
     /\ Count(s).ok
     /\ Count(s).value >= 1
     /\ SensorId(s) \in DOMAIN logs_
     /\ SensorId(s) \in DOMAIN files)
    => LET recs == RecordsOf(files[SensorId(s)])
           T == Len(recs)
           n == IF Count(s).value < T THEN Count(s).value ELSE T
       IN  sent[s] = <<ToString(n)>> \o Rendered(SubSeq(recs, T - n + 1, T))
                       \o <<"\r\n">>

\* A GET|S|2 answered from a log of 3 records whose last two differ.
C1_Witness ==
  \E s \in Sessions :
    /\ pc[s] = "done"
    /\ IsGet(s)
    /\ Count(s).ok
    /\ Count(s).value = 2
    /\ SensorId(s) \in DOMAIN logs_
    /\ SensorId(s) \in DOMAIN files
    /\ Len(files[SensorId(s)]) = 3
    /\ files[SensorId(s)][2] # files[SensorId(s)][3]
    /\ sent[s][1] = "2"

\* C2: a LOG whose timestamp fails to parse is dropped before the store: it
\* never takes the mutex, so it appends no record, does no file I/O and
\* creates no registry entry.
C2_BadTimestampDropped ==
  \A s \in Sessions :
    (IsLog(s) /\ string_to_time_t(Parts(s)[3]) = -1) => pc[s] = "done"

\* C3: the registry lookups and inserts, the file appends and the file
\* reads of a tail read are all done by a session that holds the mutex.
C3_StoreUnderMutex ==
  \A s \in Sessions :
    pc[s] \in {"log_find", "log_write", "log_flush",
               "get_find", "get_seek", "get_read"}
    => logs_mutex_ = s

\* C4: every log is a whole number of 48-byte records in every state, and
\* when no append is in flight the log of an open stream holds what it held
\* at startup followed by exactly the records of the appends, in the order
\* in which the appends acquired the mutex.
C4_ConcurrentAppend ==
  /\ \A id \in DOMAIN files :
       /\ FileSize(files[id]) % 48 = 0
       /\ \A i \in 1..Len(files[id]) : files[id][i].size = 48
  /\ (\A s \in Sessions : ~Appending(s))
     => \A id \in DOMAIN logs_ :
          logs_[id].is_open
          => RecordsOf(files[id])
               = (IF id \in DOMAIN files0 THEN RecordsOf(files0[id]) ELSE <<>>)
                   \o appends[id]

\* Every session has appended to s1 and to no other sensor, MaxAppends
\* times in all, and no append is in flight.
C4_Witness ==
  /\ \A s \in Sessions : ~Appending(s)
  /\ appenders = Sessions
  /\ DOMAIN appends = {<<"s1">>}
  /\ Len(appends[<<"s1">>]) = MaxAppends
  /\ <<"s1">> \in DOMAIN logs_
  /\ logs_[<<"s1">>].is_open

\* C5: a GET|S|k with k <= 0, for a registered sensor whose log holds at
\* least one record, is answered with exactly 0 and the line terminator.
C5_NonPositiveCount ==
  \A s \in Sessions :
    (/\ pc[s] = "done"
     /\ IsGet(s)
     /\ Count(s).ok
     /\ Count(s).value <= 0
     /\ SensorId(s) \in DOMAIN logs_
     /\ SensorId(s) \in DOMAIN files
     /\ Len(files[SensorId(s)]) >= 1)
    => sent[s] = <<"0", "\r\n">>

\* C6: a GET|S|k whose count is an int, for a sensor S with no registry
\* entry, is answered with ERROR|INVALID_SENSOR_ID and the line terminator,
\* whatever k is and whether or not a file S.log exists.
C6_UnknownSensor ==
  \A s \in Sessions :
    (/\ pc[s] = "done"
     /\ IsGet(s)
     /\ Count(s).ok
     /\ SensorId(s) \notin DOMAIN logs_)
    => sent[s] = <<"ERROR|INVALID_SENSOR_ID", "\r\n">>

\* A GET with a count of 0 or less, for an unregistered sensor whose log an
\* earlier run left behind, answered with the error.
C6_Witness ==
  \E s \in Sessions :
    /\ pc[s] = "done"
    /\ IsGet(s)
    /\ Count(s).ok
    /\ Count(s).value <= 0
    /\ SensorId(s) \notin DOMAIN logs_
    /\ SensorId(s) \in DOMAIN files
    /\ sent[s] = <<"ERROR|INVALID_SENSOR_ID", "\r\n">>

\* C7: a GET|S|1 processed after a LOG for S was written and flushed, with
\* no other append to S in between, returns one record, the one of that LOG.
C7_ReadYourWrites ==
  \A s \in Sessions :
    (/\ pc[s] = "done"
     /\ IsGet(s)
     /\ Count(s).ok
     /\ Count(s).value = 1
     /\ SensorId(s) \in DOMAIN logs_
     /\ logs_[SensorId(s)].is_open)
    => /\ SensorId(s) \in DOMAIN appends
       /\ LET last == appends[SensorId(s)][Len(appends[SensorId(s)])]
          IN  sent[s] = <<"1">> \o Segment(last) \o <<"\r\n">>

\* A GET|S|1 on a session that never appended, after two or more appends
\* to S by the other sessions, answered with the last of them.
C7_Witness ==
  \E s \in Sessions :
    /\ pc[s] = "done"
    /\ IsGet(s)
    /\ Count(s).ok
    /\ Count(s).value = 1
    /\ SensorId(s) \in DOMAIN logs_
    /\ logs_[SensorId(s)].is_open
    /\ s \notin appenders
    /\ Len(appends[SensorId(s)]) >= 2
    /\ sent[s] = <<"1">>
                   \o Segment(appends[SensorId(s)][Len(appends[SensorId(s)])])
                   \o <<"\r\n">>

\* C8: every error response is ERROR|<CODE> immediately followed by the
\* carriage-return + linefeed terminator.
C8_ErrorEncoding ==
  \A s \in Sessions :
    (/\ sent[s] # <<>>
     /\ sent[s][1] \in {"ERROR|INVALID_SENSOR_ID",
                         "ERROR|INVALID_NUM_RECORDS",
                         "ERROR|CANNOT_READ_LOG_FILE"})
    => sent[s] = <<sent[s][1], "\r\n">>

\* A line that is a LOG without exactly 4 fields, a GET without exactly 3
\* fields, or neither; the fields are the parts split_message finds.
Malformed(m) ==
  \/ HasPrefix(m, "LOG") /\ Len(split_message(m)) # 4
  \/ HasPrefix(m, "GET") /\ Len(split_message(m)) # 3
  \/ ~HasPrefix(m, "LOG") /\ ~HasPrefix(m, "GET")

\* C9: the handler of a malformed line ends in the step that starts it, with
\* no response written and the registry and every file as they were.
C9_MalformedIgnored ==
  [][\A s \in Sessions :
       (pc[s] = "await" /\ pc'[s] # "await" /\ Malformed(message'[s]))
       => /\ pc'[s] = "done"
          /\ sent'[s] = <<>>
          /\ logs_' = logs_
          /\ files' = files]_vars

\* The handler of LOG|onlytwo has ended, with logs in the registry and in
\* the working directory.
C9_Witness ==
  \E s \in Sessions :
    /\ pc[s] = "done"
    /\ message[s] = <<"LOG", "|", "onlytwo", "\r">>
    /\ sent[s] = <<>>
    /\ DOMAIN logs_ # {}
    /\ DOMAIN files # {}

\* C10: the registry is empty at startup; an entry is added only by the
\* registry step of an append for that id, every such step leaves the id
\* registered, and no entry is ever removed or replaced; an id is registered
\* only if an append for it has taken the mutex.
C10_RegistryLifecycle ==
  /\ logs_ = <<>>
  /\ [](DOMAIN logs_ \subseteq DOMAIN appends)
  /\ [][/\ DOMAIN logs_ \subseteq DOMAIN logs_'
        /\ \A id \in DOMAIN logs_ : logs_'[id].is_open = logs_[id].is_open
        /\ \A id \in DOMAIN logs_' \ DOMAIN logs_ :
             \E s \in Sessions :
               /\ pc[s] = "log_find"
               /\ pc'[s] = "log_write"
               /\ SensorId(s) = id
        /\ \A s \in Sessions :
             (pc[s] = "log_find" /\ pc'[s] = "log_write")
             => SensorId(s) \in DOMAIN logs_']_vars

\* Two sensor ids are registered, one whose stream failed to open.
C10_Witness ==
  /\ Cardinality(DOMAIN logs_) = 2
  /\ \E id \in DOMAIN logs_ : ~logs_[id].is_open

\* `a` is a prefix of `b`.
IsPrefix(a, b) == Len(a) <= Len(b) /\ SubSeq(b, 1, Len(a)) = a

\* C11: every log is append-only: no step removes a file, and the content
\* of a file before a step is a prefix of its content after it.
C11_AppendOnly ==
  [][\A id \in DOMAIN files :
       /\ id \in DOMAIN files'
       /\ IsPrefix(files[id], files'[id])]_vars

\* The log an earlier run left behind has grown by two records or more, and
\* the handler of a GET for it has ended.
C11_Witness ==
  \E s \in Sessions :
    /\ pc[s] = "done"
    /\ IsGet(s)
    /\ SensorId(s) \in DOMAIN files0
    /\ Len(files[SensorId(s)]) >= Len(files0[SensorId(s)]) + 2

\* A session is processing a line with a per-command error: a malformed
\* field count, an unparsable timestamp or value, an invalid count, an
\* unknown sensor or an unreadable log file.
PerCommandError(s) ==
  /\ pc[s] # "await"
  /\ \/ Malformed(message[s])
     \/ /\ HasPrefix(message[s], "LOG")
        /\ Len(Parts(s)) = 4
        /\ \/ string_to_time_t(Parts(s)[3]) = -1
           \/ ~stod(Parts(s)[4]).ok
     \/ /\ HasPrefix(message[s], "GET")
        /\ Len(Parts(s)) = 3
        /\ \/ ~stoi(Parts(s)[3]).ok
           \/ SensorId(s) \notin DOMAIN logs_
           \/ SensorId(s) \notin DOMAIN files

\* The number of steps a handler has left before its session waits for a
\* line again, at most.
Rank(p) ==
  CASE p = "await" -> 0
    [] p = "done" -> 1
    [] p \in {"log_unlock", "get_send"} -> 2
    [] p \in {"log_flush", "get_read"} -> 3
    [] p \in {"log_write", "get_seek"} -> 4
    [] p \in {"log_find", "get_open"} -> 5
    [] p \in {"log_lock", "get_unlock"} -> 6
    [] p = "get_find" -> 7
    [] p = "get_lock" -> 8
    [] OTHER -> 9

\* C12: no per-command error ends the connection or the process: no handler
\* is ever left by an exception; the handler of a line, with or without such
\* an error, never finds the mutex taken, which is all a started handler
\* waits for, and each of its steps brings it closer to the wait for a
\* line; and a waiting session takes its next line as soon as the io thread
\* is idle.
C12_ErrorsAreLocal ==
  /\ [](\A s \in Sessions :
          /\ pc[s] # "terminated"
          /\ pc[s] \in {"log_lock", "get_lock"} => logs_mutex_ = Free
          /\ (pc[s] = "await" /\ IoThreadIdle) => ENABLED ParseGet(s))
  /\ [][\A s \in Sessions :
          (pc[s] # "await" /\ pc'[s] # pc[s])
          => Rank(pc'[s]) < Rank(pc[s])]_vars

\* The handler of a GET for a registered sensor whose file cannot be read
\* has ended with its error response.
C12_Witness ==
  \E s \in Sessions :
    /\ pc[s] = "done"
    /\ PerCommandError(s)
    /\ IsGet(s)
    /\ sent[s] # <<>>
    /\ sent[s][1] = "ERROR|CANNOT_READ_LOG_FILE"

\* C13: a LOG line produces no response; a GET of 3 fields produces exactly
\* one response line, text ended by the one line terminator in it, written
\* by the time its handler ends.
C13_ResponseLines ==
  \A s \in Sessions :
    pc[s] = "done"
    => /\ HasPrefix(message[s], "LOG") => sent[s] = <<>>
       /\ IsGet(s)
          => /\ Len(sent[s]) >= 2
             /\ sent[s][Len(sent[s])] = "\r\n"
             /\ \A i \in 1..(Len(sent[s]) - 1) : sent[s][i] # "\r\n"

\* The count texts of the input that are integers.
IntegerTexts == {"1", "2", "5", "100", "0", "-2", "99999999999"}

\* The count field of a GET is an integer: one integer text, with the "\r"
\* of the line after it or not.
IsIntegerText(field) ==
  /\ field \in {<<field[1]>>, <<field[1], "\r">>}
  /\ field[1] \in IntegerTexts

\* C14: a GET of 3 fields whose count field is not an integer performs no
\* tail read and is answered with ERROR|INVALID_NUM_RECORDS.
C14_NonIntegerCount ==
  \A s \in Sessions :
    (IsGet(s) /\ ~IsIntegerText(Parts(s)[3]))
    => /\ pc[s] = "done"
       /\ sent[s] # <<>>
       /\ sent[s][1] = "ERROR|INVALID_NUM_RECORDS"

\* The value texts of the input that a double can hold.
NumberTexts == {"23.5", "7.25"}

\* C15: a LOG of 4 fields whose value field cannot be parsed as a number is
\* dropped in the step that starts its handler: nothing is sent, and the
\* registry and every file are as they were.
C15_BadValueDropped ==
  [][\A s \in Sessions :
       (/\ pc[s] = "await"
        /\ pc'[s] # "await"
        /\ HasPrefix(message'[s], "LOG")
        /\ Len(split_message(message'[s])) = 4
        /\ split_message(message'[s])[4][1] \notin NumberTexts)
       => /\ pc'[s] = "done"
          /\ sent'[s] = <<>>
          /\ logs_' = logs_
          /\ files' = files]_vars

\* The handler of LOG|s1|...|abc has ended with nothing sent, s1 neither
\* registered nor a file.
C15_Witness ==
  \E s \in Sessions :
    /\ pc[s] = "done"
    /\ message[s] = <<"LOG", "|", "s1", "|", T1, "|", "abc", "\r">>
    /\ sent[s] = <<>>
    /\ <<"s1">> \notin DOMAIN logs_
    /\ <<"s1">> \notin DOMAIN files

\* C16: a GET|S|k whose count is an int, for a registered sensor S whose log
\* file cannot be opened for reading, is answered with
\* ERROR|CANNOT_READ_LOG_FILE and with nothing else.
C16_UnreadableLog ==
  \A s \in Sessions :
    (/\ pc[s] = "done"
     /\ IsGet(s)
     /\ Count(s).ok
     /\ SensorId(s) \in DOMAIN logs_
     /\ SensorId(s) \notin DOMAIN files)
    => /\ Len(sent[s]) = 2
       /\ sent[s][1] = "ERROR|CANNOT_READ_LOG_FILE"

\* A GET for a sensor registered by a LOG whose open failed, with no file of
\* that name, answered with the error.
C16_Witness ==
  \E s \in Sessions :
    /\ pc[s] = "done"
    /\ IsGet(s)
    /\ Count(s).ok
    /\ SensorId(s) \in DOMAIN logs_
    /\ ~logs_[SensorId(s)].is_open
    /\ SensorId(s) \notin DOMAIN files
    /\ sent[s][1] = "ERROR|CANNOT_READ_LOG_FILE"

\* C17: the identifier field of every record written is 32 bytes: the first
\* min(len, 31) bytes of the sensor id, then zero bytes, the last byte of
\* the field a zero byte.
C17_IdentifierField ==
  \A s \in Sessions :
    (pc[s] = "log_unlock" /\ logs_[SensorId(s)].is_open)
    => LET data == files[SensorId(s)]
           field == data[Len(data)].rec.sensor_id
           id == c_str(SensorId(s))
           n == IF Len(id) < 31 THEN Len(id) ELSE 31
       IN  /\ Len(field) = 32
           /\ \A i \in 1..32 : field[i] = IF i <= n THEN id[i] ELSE NUL

\* C18: no step of the handler of a GET line, whatever its shape, sensor and
\* count, changes the registry or a file.
C18_GetChangesNothing ==
  [][\A s \in Sessions :
       (pc'[s] # "await" /\ HasPrefix(message'[s], "GET"))
       => (logs_' = logs_ /\ files' = files)]_vars

\* The handler of a GET for a sensor that is neither registered nor a file
\* has ended with an error, the store holding other logs.
C18_Witness ==
  \E s \in Sessions :
    /\ pc[s] = "done"
    /\ IsGet(s)
    /\ SensorId(s) \notin DOMAIN logs_
    /\ SensorId(s) \notin DOMAIN files
    /\ sent[s] = <<"ERROR|INVALID_SENSOR_ID", "\r\n">>
    /\ DOMAIN logs_ # {}

\* C19: a registry entry whose stream failed to open stays, its stream stays
\* closed and its file is never written; a GET|S|k with an int k for such a
\* sensor is answered, and not with ERROR|INVALID_SENSOR_ID.
C19_FailedOpenStays ==
  /\ [](\A s \in Sessions :
          (/\ pc[s] = "done"
           /\ IsGet(s)
           /\ Count(s).ok
           /\ SensorId(s) \in DOMAIN logs_
           /\ ~logs_[SensorId(s)].is_open)
          => /\ sent[s] # <<>>
             /\ sent[s][1] # "ERROR|INVALID_SENSOR_ID")
  /\ [][\A id \in DOMAIN logs_ :
          ~logs_[id].is_open
          => /\ id \in DOMAIN logs_'
             /\ ~logs_'[id].is_open
             /\ logs_'[id].buffer = <<>>
             /\ (id \in DOMAIN files') = (id \in DOMAIN files)
             /\ id \in DOMAIN files => files'[id] = files[id]]_vars

\* After a failed open and a later LOG for the same sensor, a GET for it is
\* answered with something other than ERROR|INVALID_SENSOR_ID.
C19_Witness ==
  \E s \in Sessions :
    /\ pc[s] = "done"
    /\ IsGet(s)
    /\ Count(s).ok
    /\ SensorId(s) \in DOMAIN logs_
    /\ ~logs_[SensorId(s)].is_open
    /\ Len(appends[SensorId(s)]) >= 2
    /\ sent[s] # <<>>
    /\ sent[s][1] # "ERROR|INVALID_SENSOR_ID"

\* The places of a handler between taking the mutex and releasing it.
Holding(s) ==
  pc[s] \in {"log_find", "log_write", "log_flush", "log_unlock",
             "get_find", "get_unlock"}

\* C20: a session holds the mutex exactly between the lock and the unlock of
\* a LOG or of the lookup of a GET, so never while it waits for a line,
\* reads a file or writes a response, and on no path past the unlock; a
\* session that requests the mutex finds it free and takes it in its next
\* step; the holder always has a step to take, each step bringing it closer
\* to the unlock.
C20_MutexDiscipline ==
  /\ [](/\ logs_mutex_ \in Sessions \cup {Free}
        /\ \A s \in Sessions :
             /\ (logs_mutex_ = s) = Holding(s)
             /\ pc[s] \in {"log_lock", "get_lock"}
                => (logs_mutex_ = Free /\ ENABLED (LogLock(s) \/ GetLock(s)))
             /\ pc[s] \in {"log_unlock", "get_unlock"}
                => ENABLED (LogUnlock(s) \/ GetUnlock(s)))
  /\ [][\A s \in Sessions :
          (Holding(s) /\ pc'[s] # pc[s]) => Rank(pc'[s]) < Rank(pc[s])]_vars

\* The handler of a LOG whose stream failed to open has ended and the mutex
\* is free.
C20_Witness ==
  \E s \in Sessions :
    /\ pc[s] = "done"
    /\ IsLog(s)
    /\ SensorId(s) \in DOMAIN logs_
    /\ ~logs_[SensorId(s)].is_open
    /\ logs_mutex_ = Free

====
